---- MODULE Spec2Model ----
(***************************************************************************)
(* Model of s3-tools: app.snapshot (the bucket scanner that writes one     *)
(* timestamp-named snapshot file per run) and app.report (compare the two  *)
(* newest snapshots, render an HTML table, send it by email).              *)
(*                                                                         *)
(* Python dicts are functions with a finite domain; dict.get(k, d) is Get. *)
(* Strings that the code compares, sorts or parses (bucket names, ISO      *)
(* timestamps, file names) are sequences of code points.  A raised         *)
(* exception is the record [exc |-> name].                                 *)
(***************************************************************************)
EXTENDS Integers, Sequences, FiniteSets, TLC

VARIABLES
    current,      \* report: the newest snapshot, as loaded
    previous,     \* report: the second-newest snapshot, or the empty dict
    data,         \* report: what compare_snapshots returned or raised
    html,         \* report: what get_html returned
    pc,           \* report: where the run stands
    exit,         \* report: <<>> while running, <<status>> once exited
    invocation,   \* report: how many runs of entrypoint have begun
    outbox,       \* the messages handed to the mail transport
    clock,        \* UTC wall clock, in seconds
    store,        \* SNAPSHOT_DIR: entry name -> directory entry
    spc,          \* scanner run -> where it stands
    sdata         \* scanner run -> its `data`

reportVars == <<current, previous, data, html, pc, exit, invocation, outbox>>

systemVars == <<exit, invocation, outbox, clock, store, spc, sdata>>

scannerVars == <<clock, store, spc, sdata>>

vars == <<current, previous, data, html, pc, exit, invocation, outbox, clock, store, spc, sdata>>

(* ------------------------------------------------------------------ *)
(* Bounds                                                              *)
(* ------------------------------------------------------------------ *)
MaxCount == 1
MaxTime == 1
NumScans == 2
MaxReports == 2

(* ------------------------------------------------------------------ *)
(* Dicts, exceptions, strings                                          *)
(* ------------------------------------------------------------------ *)
EmptyDict == <<>>

Get(d, k, default) == IF k \in DOMAIN d THEN d[k] ELSE default

Raise(e) == [exc |-> e]

IsRaise(x) == DOMAIN x = {"exc"}

None == <<>>

RECURSIVE StrLess(_, _)
StrLess(s, t) ==
    IF t = <<>> THEN FALSE
    ELSE IF s = <<>> THEN TRUE
    ELSE IF s[1] # t[1] THEN s[1] < t[1]
    ELSE StrLess(Tail(s), Tail(t))

StrMin(S) == CHOOSE x \in S : \A y \in S : x = y \/ StrLess(x, y)

RECURSIVE SortedBad(_)
SortedBad(S) ==
    IF S = {} THEN <<>>
    ELSE LET m == StrMin(S) IN SortedBad(S \ {m}) \o <<m>>

RECURSIVE Sorted(_)
Sorted(S) ==
    IF S = {} THEN <<>>
    ELSE LET m == StrMin(S) IN <<m>> \o Sorted(S \ {m})

Reversed(s) == [i \in 1..Len(s) |-> s[Len(s) + 1 - i]]

Orders(S) ==
    {o \in [1..Cardinality(S) -> S] : \A i, j \in 1..Cardinality(S) : o[i] = o[j] => i = j}

(* ------------------------------------------------------------------ *)
(* Timestamps: datetime.isoformat / datetime.fromisoformat             *)
(* A time is a number of seconds; its ISO string is two decimal digits *)
(* followed, for an offset-aware time, by the UTC offset marker.       *)
(* ------------------------------------------------------------------ *)
Digit(d) == 48 + d

TzSuffix == <<43>>

IsoFormat(t) == <<Digit(t \div 10), Digit(t % 10)>> \o TzSuffix

IsoFormatNaive(t) == <<Digit(t \div 10), Digit(t % 10)>>

BadIso == <<63>>

IsDigit(c) == c \in 48..57

fromisoformat(s) ==
    IF /\ Len(s) \in {2, 3}
       /\ IsDigit(s[1])
       /\ IsDigit(s[2])
       /\ Len(s) = 3 => <<s[3]>> = TzSuffix
    THEN [aware |-> Len(s) = 3, t |-> (s[1] - 48) * 10 + (s[2] - 48)]
    ELSE Raise("ValueError")

(* datetime - datetime: a timedelta in seconds, or TypeError when one
   operand is offset-naive and the other offset-aware *)
DatetimeSub(a, b) ==
    IF a.aware # b.aware THEN Raise("TypeError") ELSE [seconds |-> a.t - b.t]

(* ------------------------------------------------------------------ *)
(* compare_snapshots                                                   *)
(* ------------------------------------------------------------------ *)
BucketNamesOfCurrent(current_, previous_) == DOMAIN current_["buckets"]

BucketNamesOf(current_, previous_) ==
    DOMAIN current_["buckets"] \cup DOMAIN Get(previous_, "buckets", EmptyDict)

BucketDeltaClamped(current_, previous_, name) ==
    LET c_files == Get(Get(Get(current_, "buckets", EmptyDict), name, EmptyDict), "files", 0)
        c_bytes == Get(Get(Get(current_, "buckets", EmptyDict), name, EmptyDict), "bytes", 0)
        p_files == Get(Get(Get(previous_, "buckets", EmptyDict), name, EmptyDict), "files", 0)
        p_bytes == Get(Get(Get(previous_, "buckets", EmptyDict), name, EmptyDict), "bytes", 0)
    IN  [files |-> c_files,
         bytes |-> c_bytes,
         d_files |-> IF c_files < p_files THEN 0 ELSE c_files - p_files,
         d_bytes |-> IF c_bytes < p_bytes THEN 0 ELSE c_bytes - p_bytes]

BucketDelta(current_, previous_, name) ==
    LET c_files == Get(Get(Get(current_, "buckets", EmptyDict), name, EmptyDict), "files", 0)
        c_bytes == Get(Get(Get(current_, "buckets", EmptyDict), name, EmptyDict), "bytes", 0)
        p_files == Get(Get(Get(previous_, "buckets", EmptyDict), name, EmptyDict), "files", 0)
        p_bytes == Get(Get(Get(previous_, "buckets", EmptyDict), name, EmptyDict), "bytes", 0)
    IN  [files |-> c_files,
         bytes |-> c_bytes,
         d_files |-> c_files - p_files,
         d_bytes |-> c_bytes - p_bytes]

RECURSIVE TotalsCurrentOnly(_, _, _, _)
TotalsCurrentOnly(current_, previous_, order, n) ==
    IF n = 0
    THEN [total_files |-> 0, total_bytes |-> 0, total_d_files |-> 0, total_d_bytes |-> 0]
    ELSE LET t == TotalsCurrentOnly(current_, previous_, order, n - 1)
             b == BucketDelta(current_, previous_, order[n])
         IN  IF order[n] \notin DOMAIN current_["buckets"] THEN t
             ELSE [total_files |-> t.total_files + b.files,
                   total_bytes |-> t.total_bytes + b.bytes,
                   total_d_files |-> t.total_d_files + b.d_files,
                   total_d_bytes |-> t.total_d_bytes + b.d_bytes]

(* the running totals after the loop body has run for order[1..n] *)
RECURSIVE Totals(_, _, _, _)
Totals(current_, previous_, order, n) ==
    IF n = 0
    THEN [total_files |-> 0, total_bytes |-> 0, total_d_files |-> 0, total_d_bytes |-> 0]
    ELSE LET t == Totals(current_, previous_, order, n - 1)
             b == BucketDelta(current_, previous_, order[n])
         IN  [total_files |-> t.total_files + b.files,
              total_bytes |-> t.total_bytes + b.bytes,
              total_d_files |-> t.total_d_files + b.d_files,
              total_d_bytes |-> t.total_d_bytes + b.d_bytes]

TimeDeltaNoDefault(now, previous_) ==
    IF "metadata" \notin DOMAIN previous_ THEN Raise("KeyError")
    ELSE IF "start" \notin DOMAIN previous_["metadata"] THEN Raise("KeyError")
    ELSE LET dt_now == fromisoformat(now)
             dt_earlier == fromisoformat(previous_["metadata"]["start"])
         IN  IF IsRaise(dt_now) THEN dt_now
             ELSE IF IsRaise(dt_earlier) THEN dt_earlier
             ELSE DatetimeSub(dt_now, dt_earlier)

TimeDeltaEpochDefault(now, previous_) ==
    LET earlier == Get(Get(previous_, "metadata", EmptyDict), "start", IsoFormat(0))
        dt_now == fromisoformat(now)
        dt_earlier == fromisoformat(earlier)
    IN  IF IsRaise(dt_now) THEN dt_now
        ELSE IF IsRaise(dt_earlier) THEN dt_earlier
        ELSE DatetimeSub(dt_now, dt_earlier)

(* the time delta of lines 72-76, or the exception they raise *)
TimeDelta(now, previous_) ==
    LET earlier == Get(Get(previous_, "metadata", EmptyDict), "start", now)
        dt_now == fromisoformat(now)
        dt_earlier == fromisoformat(earlier)
    IN  IF IsRaise(dt_now) THEN dt_now
        ELSE IF IsRaise(dt_earlier) THEN dt_earlier
        ELSE DatetimeSub(dt_now, dt_earlier)

(* `order` is the order in which the loop meets the names of the union:
   Python's set iteration order, which the code does not control *)
compare_snapshots(current_, previous_, order) ==
    IF "metadata" \notin DOMAIN current_ THEN Raise("KeyError")
    ELSE IF "start" \notin DOMAIN current_["metadata"] THEN Raise("KeyError")
    ELSE LET now == current_["metadata"]["start"]
             delta == TimeDelta(now, previous_)
         IN  IF IsRaise(delta) THEN delta
             ELSE IF "buckets" \notin DOMAIN current_ THEN Raise("KeyError")
             ELSE LET t == Totals(current_, previous_, order, Len(order))
                  IN  [buckets |-> [name \in {order[i] : i \in 1..Len(order)} |->
                                       BucketDelta(current_, previous_, name)],
                       metadata |-> [now |-> now,
                                     total_files |-> t.total_files,
                                     total_bytes |-> t.total_bytes,
                                     total_d_files |-> t.total_d_files,
                                     total_d_bytes |-> t.total_d_bytes,
                                     delta |-> delta.seconds]]

(* the iteration orders compare_snapshots may meet on these inputs *)
CompareOrders(current_, previous_) ==
    IF "buckets" \in DOMAIN current_
    THEN Orders(BucketNamesOf(current_, previous_))
    ELSE {<<>>}

(* ------------------------------------------------------------------ *)
(* get_row_html, get_html                                              *)
(* ------------------------------------------------------------------ *)
format_count(n, delta) == <<IF delta /\ n > 0 THEN "+" ELSE "", n>>

(* humanize.naturalsize(n, binary=True, format=...): left uninterpreted *)
format_bytes(n, delta) == <<"naturalsize", n, delta>>

TotalLabel == <<60, 98, 62>>

get_row_html(label, files, d_files, bytes, d_bytes, row_num) ==
    [shaded |-> (row_num % 2) # 0,
     label |-> label,
     files |-> format_count(files, FALSE),
     d_files |-> format_count(d_files, TRUE),
     bytes |-> format_bytes(bytes, FALSE),
     d_bytes |-> format_bytes(d_bytes, TRUE)]

SummaryAlways(data_) ==
    <<[delta |-> data_["metadata"]["delta"], now |-> data_["metadata"]["now"]]>>

(* lines 125-128: the sentence, when the timedelta is truthy (non-zero) *)
Summary(data_) ==
    IF data_["metadata"]["delta"] # 0
    THEN <<[delta |-> data_["metadata"]["delta"], now |-> data_["metadata"]["now"]]>>
    ELSE <<>>

BucketRows(data_) ==
    LET names == Sorted(DOMAIN data_["buckets"])
    IN  [i \in 1..Len(names) |->
            get_row_html(names[i],
                         data_["buckets"][names[i]]["files"],
                         data_["buckets"][names[i]]["d_files"],
                         data_["buckets"][names[i]]["bytes"],
                         data_["buckets"][names[i]]["d_bytes"],
                         i - 1)]

get_html(data_) ==
    LET rows == BucketRows(data_)
    IN  [summary |-> Summary(data_),
         rows |-> rows \o
                  <<get_row_html(TotalLabel,
                                 data_["metadata"]["total_files"],
                                 data_["metadata"]["total_d_files"],
                                 data_["metadata"]["total_bytes"],
                                 data_["metadata"]["total_d_bytes"],
                                 Len(rows))>>]

(* ------------------------------------------------------------------ *)
(* Inputs of the comparison                                            *)
(* ------------------------------------------------------------------ *)
CompareNames == {<<97, 98>>, <<98>>}

Counts == 0..MaxCount

Runs == 1..NumScans

Times == 0..MaxTime

Dicts(keys, values) == UNION {[d -> values] : d \in SUBSET keys}

(* a bucket entry as the scanner writes it, and one with fields missing *)
FullEntries == [files : Counts, bytes : Counts]

PartialEntries == Dicts({"files", "bytes"}, {MaxCount})

StartStrings == {IsoFormat(t) : t \in Times} \cup {IsoFormatNaive(0), BadIso}

Metadatas == Dicts({"start"}, StartStrings)

WithKeys(meta, buckets) ==
    (IF meta = {} THEN EmptyDict ELSE [metadata |-> CHOOSE m \in meta : TRUE])
    @@ (IF buckets = {} THEN EmptyDict ELSE [buckets |-> CHOOSE b \in buckets : TRUE])

(* snapshots as app.snapshot writes them *)
ScannerSnapshots ==
    {[metadata |-> [start |-> IsoFormat(t)], buckets |-> b] :
        t \in Times, b \in Dicts(CompareNames, FullEntries)}

(* JSON objects with any of the keys the comparison reads missing *)
ShapeSnapshots ==
    {WithKeys(m, b) :
        m \in {{}} \cup {{x} : x \in Metadatas},
        b \in {{}} \cup {{x} : x \in Dicts(CompareNames, PartialEntries)}}

(* two families of argument pairs: every bucket content under the metadata
   the scanner writes, and every shape of missing keys and start strings *)
Inputs ==
    (ScannerSnapshots \X (ScannerSnapshots \cup {EmptyDict}))
    \cup (ShapeSnapshots \X ShapeSnapshots)

(* ------------------------------------------------------------------ *)
(* The comparison and the rendering as a state machine                 *)
(* ------------------------------------------------------------------ *)
Init ==
    /\ \E in \in Inputs : current = in[1] /\ previous = in[2]
    /\ data = None
    /\ html = None
    /\ pc = "compare"
    /\ exit = <<>>
    /\ invocation = 0
    /\ outbox = <<>>
    /\ clock = 0
    /\ store = EmptyDict
    /\ spc = [r \in Runs |-> "idle"]
    /\ sdata = [r \in Runs |-> None]

Compare ==
    /\ pc = "compare"
    /\ \E order \in CompareOrders(current, previous) :
           data' = compare_snapshots(current, previous, order)
    /\ pc' = IF IsRaise(data') THEN "raised" ELSE "render"
    /\ UNCHANGED <<current, previous, html>>
    /\ UNCHANGED systemVars

Render ==
    /\ pc = "render"
    /\ html' = get_html(data)
    /\ pc' = "rendered"
    /\ UNCHANGED <<current, previous, data>>
    /\ UNCHANGED systemVars

Next == Compare \/ Render

Spec == Init /\ [][Next]_vars

(* get_html applied to any Delta Record *)
RenderNames == {<<66>>, <<97>>, <<97, 98>>, <<98>>}

RenderEntries ==
    {[files |-> 0, bytes |-> 0, d_files |-> 0 - MaxCount, d_bytes |-> 0 - MaxCount],
     [files |-> MaxCount, bytes |-> MaxCount, d_files |-> MaxCount, d_bytes |-> 0]}

DeltaRecords ==
    [buckets : Dicts(RenderNames, RenderEntries),
     metadata : [now : {IsoFormat(MaxTime)},
                 delta : {0, MaxTime},
                 total_files : {MaxCount},
                 total_bytes : {MaxCount},
                 total_d_files : {0 - MaxCount, MaxCount},
                 total_d_bytes : {0}]]

InitRender ==
    /\ current = EmptyDict
    /\ previous = EmptyDict
    /\ data \in DeltaRecords
    /\ html = None
    /\ pc = "render"
    /\ exit = <<>>
    /\ invocation = 0
    /\ outbox = <<>>
    /\ clock = 0
    /\ store = EmptyDict
    /\ spc = [r \in Runs |-> "idle"]
    /\ sdata = [r \in Runs |-> None]

SpecRender == InitRender /\ [][Render]_vars

(* ------------------------------------------------------------------ *)
(* The snapshot store and app.snapshot (the scanner)                   *)
(* ------------------------------------------------------------------ *)
JsonSuffix == <<46, 106, 115, 111, 110>>

DirName == <<116, 109, 112>>

(* SNAPSHOT_DIR holds one subdirectory besides the snapshot files *)
DirEntry == [kind |-> "dir", content |-> EmptyDict]

(* datetime.now(utc).replace(microsecond=0).isoformat(): the clock counts
   whole seconds, so two calls in the same second give the same string *)
get_current_time == IsoFormat(clock)

snapshot_file(data_) == data_["metadata"]["start"] \o JsonSuffix

(* open(path, mode="w") + json.dump: creates the file or replaces its content *)
WriteFile(store_, path, content) ==
    [n \in DOMAIN store_ \cup {path} |->
        IF n = path THEN [kind |-> "file", content |-> content] ELSE store_[n]]

(* what get_buckets and scan_bucket may report of the storage backend *)
ScanResults ==
    {(<<98>> :> [files |-> 0, bytes |-> 0]),
     (<<97, 98>> :> [files |-> MaxCount, bytes |-> MaxCount])
         @@ (<<98>> :> [files |-> MaxCount, bytes |-> 0])}

(* snapshot.main, lines 108-112 *)
ScanStart(r) ==
    /\ spc[r] = "idle"
    /\ sdata' = [sdata EXCEPT ![r] =
                    [buckets |-> EmptyDict,
                     metadata |-> [version |-> "1", start |-> get_current_time]]]
    /\ spc' = [spc EXCEPT ![r] = "scanning"]
    /\ UNCHANGED <<clock, store>>
    /\ UNCHANGED reportVars

(* snapshot.main, lines 114-121 *)
ScanFinish(r) ==
    /\ spc[r] = "scanning"
    /\ \E result \in ScanResults :
           LET d == [buckets |-> result,
                     metadata |-> [version |-> "1",
                                   start |-> sdata[r]["metadata"]["start"],
                                   end |-> get_current_time]]
           IN  /\ sdata' = [sdata EXCEPT ![r] = d]
               /\ store' = WriteFile(store, snapshot_file(d), d)
    /\ spc' = [spc EXCEPT ![r] = "done"]
    /\ UNCHANGED clock
    /\ UNCHANGED reportVars

(* get_buckets or scan_bucket raises: entrypoint logs it and exits 1 *)
ScanFail(r) ==
    /\ spc[r] = "scanning"
    /\ spc' = [spc EXCEPT ![r] = "failed"]
    /\ UNCHANGED <<clock, store, sdata>>
    /\ UNCHANGED reportVars

Tick ==
    /\ clock < MaxTime
    /\ clock' = clock + 1
    /\ UNCHANGED <<store, spc, sdata>>
    /\ UNCHANGED reportVars

(* ------------------------------------------------------------------ *)
(* app.report: main, send_email, entrypoint                            *)
(* ------------------------------------------------------------------ *)
IsFile(store_, n) == store_[n]["kind"] = "file"

ListFilesAscending(store_) ==
    LET listing == Sorted(DOMAIN store_)
    IN  SelectSeq(listing, LAMBDA n : IsFile(store_, n))

(* lines 188-189: sorted(os.listdir(...), reverse=True), regular files only *)
ListFiles(store_) ==
    LET listing == Reversed(Sorted(DOMAIN store_))
    IN  SelectSeq(listing, LAMBDA n : IsFile(store_, n))

load_snapshot(store_, path) == store_[path]["content"]

SendOutcomes == {"sent", "transport_error", "quit_error"}

Message(data_, html_, run) ==
    [run |-> run,
     subject |-> <<format_count(data_["metadata"]["total_d_files"], TRUE),
                   format_bytes(data_["metadata"]["total_d_bytes"], TRUE)>>,
     html |-> html_]

SameLetter(a, b) == a["subject"] = b["subject"] /\ a["html"] = b["html"]

send_message_dedup(outbox_, message) ==
    IF \E k \in 1..Len(outbox_) : SameLetter(outbox_[k], message)
    THEN outbox_
    ELSE Append(outbox_, message)

(* server.send_message(message) *)
send_message(outbox_, message) == Append(outbox_, message)

(* entrypoint is started; main, lines 188-195 *)
ReportLoad ==
    /\ pc \in {"idle", "exited"}
    /\ invocation < MaxReports
    /\ invocation' = invocation + 1
    /\ LET files == ListFiles(store)
       IN  IF files = <<>>
           THEN /\ pc' = "exited"
                /\ exit' = <<1>>
                /\ current' = None
                /\ previous' = None
           ELSE /\ pc' = "compare"
                /\ exit' = <<>>
                /\ current' = load_snapshot(store, files[1])
                /\ previous' = IF Len(files) >= 2
                               THEN load_snapshot(store, files[2])
                               ELSE EmptyDict
    /\ data' = None
    /\ html' = None
    /\ UNCHANGED outbox
    /\ UNCHANGED scannerVars

(* send_email, lines 167-182, after get_html *)
ReportSend ==
    /\ pc = "rendered"
    /\ \E outcome \in SendOutcomes :
           /\ outbox' = IF outcome = "transport_error"
                        THEN outbox
                        ELSE send_message(outbox, Message(data, html, invocation))
           /\ pc' = IF outcome = "sent" THEN "exited" ELSE "raised"
           /\ exit' = IF outcome = "sent" THEN <<0>> ELSE exit
    /\ UNCHANGED <<current, previous, data, html, invocation>>
    /\ UNCHANGED scannerVars

(* entrypoint, lines 209-211 *)
EntrypointExcept ==
    /\ pc = "raised"
    /\ pc' = "exited"
    /\ exit' = <<1>>
    /\ UNCHANGED <<current, previous, data, html, invocation, outbox>>
    /\ UNCHANGED scannerVars

InitSystem ==
    /\ current = None
    /\ previous = None
    /\ data = None
    /\ html = None
    /\ pc = "idle"
    /\ exit = <<>>
    /\ invocation = 0
    /\ outbox = <<>>
    /\ clock = 0
    /\ store = DirName :> DirEntry
    /\ spc = [r \in Runs |-> "idle"]
    /\ sdata = [r \in Runs |-> None]

NextSystem ==
    \/ Tick
    \/ \E r \in Runs : ScanStart(r)
    \/ \E r \in Runs : ScanFinish(r)
    \/ \E r \in Runs : ScanFail(r)
    \/ ReportLoad
    \/ Compare
    \/ Render
    \/ ReportSend
    \/ EntrypointExcept

SpecSystem == InitSystem /\ [][NextSystem]_vars

(* ------------------------------------------------------------------ *)
(* Claims about compare_snapshots and get_html                         *)
(* ------------------------------------------------------------------ *)
Compared == pc \in {"render", "rendered"}

HasBuckets(s) == "buckets" \in DOMAIN s

HasStart(s) == "metadata" \in DOMAIN s /\ "start" \in DOMAIN s["metadata"]

NamesIn(s) == IF HasBuckets(s) THEN DOMAIN s["buckets"] ELSE {}

(* the count a snapshot records for a bucket, 0 for anything absent *)
CountIn(s, name, field) ==
    IF name \in NamesIn(s) /\ field \in DOMAIN s["buckets"][name]
    THEN s["buckets"][name][field]
    ELSE 0

RECURSIVE SumOver(_, _, _)
SumOver(buckets, names, field) ==
    IF names = {} THEN 0
    ELSE LET n == CHOOSE x \in names : TRUE
         IN  buckets[n][field] + SumOver(buckets, names \ {n}, field)

(* C1: the bucket names of the record compare_snapshots returns are exactly
   the union of current's and previous's bucket names. *)
C1_KeySetIsUnion ==
    Compared => DOMAIN data["buckets"] = NamesIn(current) \cup NamesIn(previous)

C1_Witness ==
    /\ pc = "rendered"
    /\ NamesIn(current) \ NamesIn(previous) # {}
    /\ NamesIn(previous) \ NamesIn(current) # {}

(* C2: every bucket of the union gets files and bytes equal to current's
   counts (0 when absent) and d_files, d_bytes equal to current minus
   previous (0 when absent), never clamped. *)
C2_PerBucketDeltas ==
    Compared =>
        \A name \in NamesIn(current) \cup NamesIn(previous) :
            /\ name \in DOMAIN data["buckets"]
            /\ data["buckets"][name] =
                   [files |-> CountIn(current, name, "files"),
                    bytes |-> CountIn(current, name, "bytes"),
                    d_files |-> CountIn(current, name, "files") - CountIn(previous, name, "files"),
                    d_bytes |-> CountIn(current, name, "bytes") - CountIn(previous, name, "bytes")]

C2_Witness ==
    /\ pc = "rendered"
    /\ \E name \in NamesIn(previous) \ NamesIn(current) :
           /\ CountIn(previous, name, "files") > 0
           /\ data["buckets"][name]["files"] = 0
           /\ data["buckets"][name]["d_files"] < 0
           /\ data["buckets"][name]["d_bytes"] < 0
    /\ \E name \in NamesIn(current) \ NamesIn(previous) :
           data["buckets"][name]["d_files"] > 0

(* C3: each metadata total is the sum of that field over the record's
   bucket entries, whatever order the names were iterated in. *)
C3_TotalsAreSums ==
    Compared =>
        LET b == data["buckets"]
            m == data["metadata"]
        IN  /\ m["total_files"] = SumOver(b, DOMAIN b, "files")
            /\ m["total_bytes"] = SumOver(b, DOMAIN b, "bytes")
            /\ m["total_d_files"] = SumOver(b, DOMAIN b, "d_files")
            /\ m["total_d_bytes"] = SumOver(b, DOMAIN b, "d_bytes")

C3_Witness ==
    /\ pc = "rendered"
    /\ Cardinality(DOMAIN data["buckets"]) >= 2
    /\ NamesIn(previous) \ NamesIn(current) # {}
    /\ data["metadata"]["total_files"] > 0
    /\ data["metadata"]["total_d_bytes"] < 0

WellFormed(s) ==
    /\ HasStart(s)
    /\ ~IsRaise(fromisoformat(s["metadata"]["start"]))
    /\ HasBuckets(s)

(* C4: comparing a well-formed snapshot against the empty previous does not
   fail, gives every bucket d_files = files and d_bytes = bytes, equal
   totals, and a zero metadata.delta. *)
C4_EmptyPrevious ==
    (WellFormed(current) /\ previous = EmptyDict /\ pc # "compare") =>
        /\ pc # "raised"
        /\ DOMAIN data["buckets"] = DOMAIN current["buckets"]
        /\ \A name \in DOMAIN data["buckets"] :
               /\ data["buckets"][name]["d_files"] = data["buckets"][name]["files"]
               /\ data["buckets"][name]["d_bytes"] = data["buckets"][name]["bytes"]
        /\ data["metadata"]["total_d_files"] = data["metadata"]["total_files"]
        /\ data["metadata"]["total_d_bytes"] = data["metadata"]["total_bytes"]
        /\ data["metadata"]["delta"] = 0

C4_Witness ==
    /\ pc = "rendered"
    /\ WellFormed(current)
    /\ previous = EmptyDict
    /\ data["metadata"]["total_files"] > 0

Parses(s) == HasStart(s) /\ ~IsRaise(fromisoformat(s["metadata"]["start"]))

LacksStartOrBuckets(s) == ~HasStart(s) \/ ~HasBuckets(s)

(* C5 as claimed: compare_snapshots fails exactly when current lacks
   metadata.start or the buckets mapping; nothing in previous makes it fail.
   A start of current that is present but does not parse is counted here as
   lacking, so that only the content of previous can refute the statement. *)
C5_FailsOnlyOnCurrentLacking ==
    pc # "compare" =>
        (pc = "raised" <=> (LacksStartOrBuckets(current) \/ ~Parses(current)))

(* C5 as amended: compare_snapshots fails exactly when current lacks
   metadata.start or the buckets mapping, or a start that is present (in
   current or in previous) does not parse as an ISO-8601 timestamp, or the
   two parsed starts mix offset-naive and offset-aware; nothing that is
   merely absent from previous makes it fail. *)
C5_FailureCauses ==
    pc # "compare" =>
        (pc = "raised" <=>
            \/ LacksStartOrBuckets(current)
            \/ ~Parses(current)
            \/ HasStart(previous) /\ ~Parses(previous)
            \/ /\ Parses(current)
               /\ Parses(previous)
               /\ fromisoformat(current["metadata"]["start"]).aware
                      # fromisoformat(previous["metadata"]["start"]).aware)

C5_Witness ==
    /\ pc = "raised"
    /\ WellFormed(current)
    /\ HasStart(previous)
    /\ ~Parses(previous)

(* C6 as claimed: the rendered summary sentence is omitted if and only if
   previous is empty. *)
C6_SummaryOmittedIffNoPrevious ==
    pc = "rendered" => (html["summary"] = <<>> <=> previous = EmptyDict)

(* C6 as amended: the rendered summary sentence is omitted if and only if
   metadata.delta is zero, that is, previous has no metadata.start (the
   empty previous included) or its start is the same instant as current's;
   when present it reports that delta and current's start. *)
C6_SummaryOmittedIffZeroDelta ==
    pc = "rendered" =>
        /\ html["summary"] = <<>> <=>
               \/ ~HasStart(previous)
               \/ fromisoformat(previous["metadata"]["start"]).t
                      = fromisoformat(current["metadata"]["start"]).t
        /\ html["summary"] # <<>> =>
               html["summary"] =
                   <<[delta |-> fromisoformat(current["metadata"]["start"]).t
                                    - fromisoformat(previous["metadata"]["start"]).t,
                      now |-> current["metadata"]["start"]]>>

C6_Witness ==
    /\ pc = "rendered"
    /\ previous # EmptyDict
    /\ HasStart(previous)
    /\ HasBuckets(previous)
    /\ html["summary"] = <<>>

(* C7: get_html renders one row per bucket name in ascending lexicographic
   order, then one Total row built from the metadata totals, last; the row
   at 0-based position i is shaded exactly when i is odd. *)
C7_RowOrderAndShading ==
    pc = "rendered" =>
        LET rows == html["rows"]
            n == Cardinality(DOMAIN data["buckets"])
        IN  /\ Len(rows) = n + 1
            /\ {rows[i]["label"] : i \in 1..n} = DOMAIN data["buckets"]
            /\ \A i, j \in 1..n : i < j => StrLess(rows[i]["label"], rows[j]["label"])
            /\ \A i \in 1..n :
                   /\ rows[i]["files"][2] = data["buckets"][rows[i]["label"]]["files"]
                   /\ rows[i]["d_files"][2] = data["buckets"][rows[i]["label"]]["d_files"]
                   /\ rows[i]["bytes"][2] = data["buckets"][rows[i]["label"]]["bytes"]
                   /\ rows[i]["d_bytes"][2] = data["buckets"][rows[i]["label"]]["d_bytes"]
            /\ rows[n + 1]["label"] = TotalLabel
            /\ rows[n + 1]["files"][2] = data["metadata"]["total_files"]
            /\ rows[n + 1]["d_files"][2] = data["metadata"]["total_d_files"]
            /\ rows[n + 1]["bytes"][2] = data["metadata"]["total_bytes"]
            /\ rows[n + 1]["d_bytes"][2] = data["metadata"]["total_d_bytes"]
            /\ \A i \in 1..(n + 1) : rows[i]["shaded"] <=> (i - 1) % 2 = 1

C7_Witness ==
    /\ pc = "rendered"
    /\ Len(html["rows"]) = 4
    /\ html["rows"][1]["label"] = <<66>>
    /\ html["rows"][2]["label"] = <<97, 98>>
    /\ html["rows"][3]["label"] = <<98>>
    /\ html["rows"][4]["shaded"]

(* ------------------------------------------------------------------ *)
(* Claims about the reporting run and the scanner                      *)
(* ------------------------------------------------------------------ *)
FileNamesOf(store_) == {n \in DOMAIN store_ : store_[n]["kind"] = "file"}

Greatest(S) == CHOOSE x \in S : \A y \in S : y = x \/ StrLess(y, x)

StartOf(s) == fromisoformat(s["metadata"]["start"]).t

SentBy(i) == Cardinality({k \in 1..Len(outbox) : outbox[k]["run"] = i})

IsRecord(d) == d # None /\ ~IsRaise(d)

(* what the step that begins a run must do, given the store it lists *)
RunBeginsRight ==
    LET names == FileNamesOf(store)
    IN  IF names = {}
        THEN /\ pc' = "exited"
             /\ exit' = <<1>>
             /\ current' = None
             /\ previous' = None
        ELSE LET newest == Greatest(names)
                 rest == names \ {newest}
             IN  /\ pc' = "compare"
                 /\ current' = store[newest]["content"]
                 /\ \A n \in names :
                        StartOf(store[n]["content"]) <= StartOf(current')
                 /\ previous' = IF rest = {}
                                THEN EmptyDict
                                ELSE store[Greatest(rest)]["content"]

(* C8: a reporting run over a store with no snapshot file exits with status
   1 having loaded, compared and sent nothing; otherwise current is the
   snapshot with the greatest file name (the latest start), previous the
   second-greatest or the empty dict, and compare precedes render precedes
   send. *)
C8_ReportRun ==
    /\ [](/\ (pc = "exited" /\ current = None) =>
                 (exit = <<1>> /\ data = None /\ html = None /\ SentBy(invocation) = 0)
          /\ html # None => IsRecord(data)
          /\ SentBy(invocation) > 0 => (html # None /\ IsRecord(data)))
    /\ [][/\ invocation' # invocation =>
                 (RunBeginsRight /\ data' = None /\ html' = None /\ outbox' = outbox)
          /\ (data' # data /\ data' # None) =>
                 (pc = "compare" /\ html' = None /\ outbox' = outbox)
          /\ (html' # html /\ html' # None) =>
                 (IsRecord(data) /\ data' = data /\ outbox' = outbox)
          /\ outbox' # outbox =>
                 (/\ html # None
                  /\ html' = html
                  /\ outbox' = Append(outbox, Message(data, html, invocation)))]_vars

C8_Witness ==
    /\ exit = <<0>>
    /\ previous # EmptyDict
    /\ StartOf(current) > StartOf(previous)
    /\ SentBy(invocation) = 1
    /\ DirName \in DOMAIN store

(* C9 as claimed: every invocation of report.entrypoint hands exactly one
   message to the mail transport. *)
C9_ExactlyOnePerInvocation ==
    pc = "exited" => SentBy(invocation) = 1

(* C9 as amended: every invocation hands at most one message to the mail
   transport: exactly one when the run completes (exit status 0), none when
   the store holds no snapshot file or a step before the hand-over raises;
   nothing is batched or deduplicated, a run's message is sent even when an
   earlier run sent the same one. *)
C9_AtMostOnePerInvocation ==
    /\ \A k \in 1..Len(outbox) : outbox[k]["run"] \in 1..invocation
    /\ \A i \in 1..invocation : SentBy(i) <= 1
    /\ exit = <<0>> => SentBy(invocation) = 1
    /\ (pc = "exited" /\ html = None) => SentBy(invocation) = 0
    /\ pc \in {"compare", "render", "rendered"} => SentBy(invocation) = 0

C9_Witness ==
    /\ exit = <<0>>
    /\ Len(outbox) = 2
    /\ SameLetter(outbox[1], outbox[2])
    /\ outbox[1]["run"] # outbox[2]["run"]

(* C10: every scanner run that has finished has a snapshot file of its own,
   named by its start, distinct from every other run's and still holding
   what that run wrote. *)
C10_OneFilePerRun ==
    \A r1 \in Runs :
        spc[r1] = "done" =>
            /\ snapshot_file(sdata[r1]) \in FileNamesOf(store)
            /\ store[snapshot_file(sdata[r1])]["content"] = sdata[r1]
            /\ \A r2 \in Runs \ {r1} :
                   spc[r2] = "done" => snapshot_file(sdata[r2]) # snapshot_file(sdata[r1])

====
